---- MODULE Spec2Model ----
(***************************************************************************)
(* Model of install_ffmpeg.js: the platform dispatch switch, win32() with  *)
(* get() and unzipFile(), linux() and darwin().  The HTTP client, the      *)
(* filesystem, yauzl, the child processes and the Node.js runtime are the  *)
(* environment: their events are nondeterministic actions.                 *)
(* Strings the code inspects (indexOf, split, the /\/$/ test) are          *)
(* sequences of one-character strings.                                     *)
(***************************************************************************)
EXTENDS Integers, Sequences, FiniteSets, TLC

\* ------------------------------------------------------------------ bounds
MaxChunks == 2     \* chunks of one response body
MaxChunkLen == 2   \* bytes of one chunk
MaxEntries == 3    \* entries of one archive

\* ------------------------------------------------------- string constants
LibAvcodec == <<"l","i","b","a","v","c","o","d","e","c",".","s","o",".","5","9">>
LibAvformat == <<"l","i","b","a","v","f","o","r","m","a","t",".","s","o",".","5","9">>
LibAvdevice == <<"l","i","b","a","v","d","e","v","i","c","e",".","s","o",".","5","9">>
LibAvfilter == <<"l","i","b","a","v","f","i","l","t","e","r",".","s","o",".","8">>
LibAvutil == <<"l","i","b","a","v","u","t","i","l",".","s","o",".","5","7">>
LibPostproc == <<"l","i","b","p","o","s","t","p","r","o","c",".","s","o",".","5","6">>
LibSwresample == <<"l","i","b","s","w","r","e","s","a","m","p","l","e",".","s","o",".","4">>
LibSwscale == <<"l","i","b","s","w","s","c","a","l","e",".","s","o",".","6">>

NoSuchKeg == <<"E","r","r","o","r",":"," ","N","o"," ","s","u","c","h"," ","k","e","g">>
FfmpegAt5 == <<"f","f","m","p","e","g","@","5">>

\* Lines an `ldconfig -p` listing may hold besides the required ones: an older
\* soname, and a soname of which a required one is a proper prefix.
OldAvcodec == <<"l","i","b","a","v","c","o","d","e","c",".","s","o",".","5","8">>
LongSwscale == <<"l","i","b","s","w","s","c","a","l","e",".","s","o",".","6","0">>

\* stderr texts of a failed `brew list ffmpeg@5`
StderrNoKeg == <<"E","r","r","o","r",":"," ","N","o"," ","s","u","c","h"," ","k","e","g",":"," ","/","u","s","r","/","l","o","c","a","l","/","C","e","l","l","a","r","/","f","f","m","p","e","g","@","5">>
StderrNoBrew == <<"/","b","i","n","/","s","h",":"," ","b","r","e","w",":"," ","c","o","m","m","a","n","d"," ","n","o","t"," ","f","o","u","n","d">>
StderrOther == <<"E","r","r","o","r",":"," ","f","f","m","p","e","g","@","5"," ","i","s"," ","n","o","t"," ","r","e","a","d","a","b","l","e">>
StderrKegOnly == <<"E","r","r","o","r",":"," ","N","o"," ","s","u","c","h"," ","k","e","g",":"," ","/","o","p","t","/","f","f","m","p","e","g">>

\* ------------------------------------------------------------ environment
Platforms == {"win32", "linux", "darwin", "freebsd"}   \* os.platform()
Archs == {"x64", "arm64", "ia32"}                      \* os.arch()
Running == 0 - 1                                       \* exitCode while the process runs

ListingLines == <<LibAvcodec, OldAvcodec, LibAvformat, LibAvdevice, LibAvfilter,
                  LibAvutil, LibPostproc, LibSwresample, LibSwscale, LongSwscale>>
BrewStderrs == {StderrNoKeg, StderrNoBrew, StderrOther, StderrKegOnly}

\* win32(): the pinned archive url, and what a response's Location header holds
Url == "https://github.com/GyanD/codexffmpeg/releases/download/5.1.2/ffmpeg-5.1.2-full_build-shared.zip"
Undefined == "undefined"
Locations == {"https://objects.example/ffmpeg-5.1.2-full_build-shared.zip", Undefined}
Statuses == {200, 301, 302, 307, 404}

\* A JavaScript number that may be NaN (+undefined is NaN).
Num(n) == [nan |-> FALSE, v |-> n]
NaN == [nan |-> TRUE, v |-> 0]

NoError == [name |-> "", message |-> ""]

RECURSIVE Sum(_)
Sum(seq) == IF seq = <<>> THEN 0 ELSE Head(seq) + Sum(Tail(seq))

\* Response bodies: every chunking of up to MaxChunks chunks of 1..MaxChunkLen bytes.
Bodies == UNION { [1..n -> 1..MaxChunkLen] : n \in 0..MaxChunks }

\* Entry names of an archive, and the archives yauzl may enumerate.
DirR == <<"r", "/">>
FileRA == <<"r", "/", "a">>
FileC == <<"c">>
EntryNames == {DirR, FileRA, FileC}
Archives == UNION { [1..n -> EntryNames] : n \in 0..MaxEntries }

RECURSIVE JoinLines(_, _, _)
\* The listing made of the lines of ListingLines whose index is in `pick`.
JoinLines(lines, pick, i) ==
  IF i > Len(lines) THEN <<>>
  ELSE (IF i \in pick THEN lines[i] \o <<"\n">> ELSE <<>>) \o JoinLines(lines, pick, i + 1)

Listings == { JoinLines(ListingLines, pick, 1) : pick \in SUBSET (1..Len(ListingLines)) }

\* ---------------------------------------------------------------- helpers
\* String.prototype.indexOf: the first 0-based position of t in s, or -1.
indexOf(s, t) ==
  LET hits == {k \in 0..(Len(s) - Len(t)) : SubSeq(s, k + 1, k + Len(t)) = t}
  IN IF hits = {} THEN -1 ELSE CHOOSE k \in hits : \A j \in hits : k <= j

VARIABLES
  platform, arch,      \* what os.platform() and os.arch() return
  mainPc,              \* "switch" before the top-level switch, "done" after it
  exitCode,            \* Running, or the status the process ended with
  started,             \* which of win32(), linux(), darwin() were called
  console,             \* tags of the fixed messages printed so far
  procCalls,           \* external commands executed, in order
  procResults,         \* how each of them ended ("ok" or "failed"), in order
  fsTouched,           \* kinds of filesystem changes performed
  \* linux()
  lxPc, stdout, result, notInstalledMsgs,
  \* darwin()
  dwPc, returnMessage,
  brewStderr,          \* err.stderr of the failed `brew list`, as <<stderr>>
  \* win32()
  wPc,                 \* position of win32()
  getCalls,            \* the url argument of each get() call, in order
  renameCalls,         \* the root name of each fs.renameSync call, in order
  sinkWritten,         \* bytes passed to ws_shared so far
  accessResult,        \* how access() of the target ended
  \* the get() invocation in flight
  gPromise, gErr, resStatus, resLocation, body, resState, received, totalLength, progress,
  resLength,           \* bytes of the whole body of the response in flight
  \* unzipFile()
  uzPc, uzPromise, resolveCalls, uzRoot, handles, rootPath,
  archive, nextEntry, readReqs, zipEnded, rs, ws,
  wsPaths              \* the path of each fs.createWriteStream of unzipFile, in order

procVars == <<platform, arch, mainPc, exitCode, started, console, procCalls, procResults, fsTouched>>
lxVars == <<lxPc, stdout, result, notInstalledMsgs>>
dwVars == <<dwPc, returnMessage, brewStderr>>
winVars == <<wPc, getCalls, renameCalls, sinkWritten, accessResult>>
getVars == <<gPromise, gErr, resStatus, resLocation, body, resState, received, totalLength, progress,
             resLength>>
uzVars == <<uzPc, uzPromise, resolveCalls, uzRoot, handles, rootPath,
            archive, nextEntry, readReqs, zipEnded, rs, ws, wsPaths>>
vars == <<procVars, lxVars, dwVars, winVars, getVars, uzVars>>

Init ==
  /\ platform \in Platforms
  /\ arch \in Archs
  /\ mainPc = "switch"
  /\ exitCode = Running
  /\ started = {}
  /\ console = {}
  /\ procCalls = <<>> /\ procResults = <<>>
  /\ fsTouched = {}
  /\ lxPc = "idle" /\ stdout = <<>> /\ result = 0 /\ notInstalledMsgs = <<>>
  /\ dwPc = "idle" /\ returnMessage = "" /\ brewStderr = <<>>
  /\ wPc = "idle" /\ getCalls = <<>> /\ renameCalls = <<>> /\ sinkWritten = 0
  /\ accessResult = "none"
  /\ gPromise = "none" /\ gErr = NoError /\ resStatus = 0 /\ resLocation = Undefined
  /\ body = <<>> /\ resState = "none" /\ received = 0 /\ totalLength = Num(0) /\ progress = <<>>
  /\ resLength = 0
  /\ uzPc = "idle" /\ uzPromise = "none" /\ resolveCalls = 0 /\ uzRoot = <<>>
  /\ handles = 0 /\ rootPath = <<>>
  /\ archive = <<>> /\ nextEntry = 1 /\ readReqs = 0 /\ zipEnded = FALSE
  /\ rs = <<>> /\ ws = <<>> /\ wsPaths = <<>>

Alive == exitCode = Running

\* ------------------------------------------------- platform dispatch switch
\* The switch without the architecture test of the win32 case.
ArchAccepted_Win32Any(p, a) ==
  CASE p = "win32" -> TRUE
    [] p = "linux" -> ~(a # "x64" /\ a # "arm64")
    [] p = "darwin" -> ~(a # "x64" /\ a # "arm64")
    [] OTHER -> FALSE

\* The architecture conditions of the three recognised cases.
ArchAccepted(p, a) ==
  CASE p = "win32" -> ~(a # "x64")
    [] p = "linux" -> ~(a # "x64" /\ a # "arm64")
    [] p = "darwin" -> ~(a # "x64" /\ a # "arm64")
    [] OTHER -> FALSE

Switch ==
  /\ Alive /\ mainPc = "switch"
  /\ mainPc' = "done"
  /\ UNCHANGED <<platform, arch, procResults, fsTouched, stdout, result, notInstalledMsgs, returnMessage, brewStderr>>
  /\ UNCHANGED <<getCalls, renameCalls, sinkWritten, accessResult, getVars, uzVars>>
  /\ IF platform \notin {"win32", "linux", "darwin"}
     THEN /\ console' = console \cup {"Platfrom is not supported."}
          /\ UNCHANGED <<exitCode, started, procCalls, lxPc, dwPc, wPc>>
     ELSE IF ~ArchAccepted(platform, arch)
     THEN /\ console' = console \cup {"Only 64-bit platforms are supported."}
          /\ exitCode' = 1
          /\ UNCHANGED <<started, procCalls, lxPc, dwPc, wPc>>
     ELSE /\ started' = started \cup {platform}
          /\ exitCode' = exitCode
          /\ CASE platform = "linux" ->
                    /\ console' = console \cup {"Checking FFmpeg dependencies for Beam Coder on Linux."}
                    /\ procCalls' = Append(procCalls, "ldconfig -p")
                    /\ lxPc' = "execFile"
                    /\ UNCHANGED <<dwPc, wPc>>
               [] platform = "darwin" ->
                    /\ console' = console \cup {"Checking for FFmpeg dependencies via HomeBrew."}
                    /\ procCalls' = Append(procCalls, "brew list ffmpeg@5")
                    /\ dwPc' = "list"
                    /\ UNCHANGED <<lxPc, wPc>>
               [] OTHER ->
                    /\ console' = console \cup {"Checking/Installing FFmpeg dependencies for Beam Coder on Windows."}
                    /\ wPc' = "mkdir"
                    /\ UNCHANGED <<procCalls, lxPc, dwPc>>

\* ------------------------------------------------------------------ linux()
\* linux() whose second check was copied from the first and searches for
\* libavcodec again.
LinuxChecks_CopyPaste ==
  << [needle |-> LibAvcodec, names |-> LibAvcodec],
     [needle |-> LibAvcodec, names |-> LibAvformat],
     [needle |-> LibAvdevice, names |-> LibAvdevice],
     [needle |-> LibAvfilter, names |-> LibAvfilter],
     [needle |-> LibAvutil, names |-> LibAvutil],
     [needle |-> LibPostproc, names |-> LibPostproc],
     [needle |-> LibSwresample, names |-> LibSwresample],
     [needle |-> LibSwscale, names |-> LibSwscale] >>

\* The eight checks of linux(), in order: the string searched for in stdout
\* and the library named by the message printed when it is not found.
LinuxChecks ==
  << [needle |-> LibAvcodec, names |-> LibAvcodec],
     [needle |-> LibAvformat, names |-> LibAvformat],
     [needle |-> LibAvdevice, names |-> LibAvdevice],
     [needle |-> LibAvfilter, names |-> LibAvfilter],
     [needle |-> LibAvutil, names |-> LibAvutil],
     [needle |-> LibPostproc, names |-> LibPostproc],
     [needle |-> LibSwresample, names |-> LibSwresample],
     [needle |-> LibSwscale, names |-> LibSwscale] >>

RECURSIVE FailedChecks(_, _)
\* The libraries named by the '... is not installed.' messages, in print order.
FailedChecks(out, i) ==
  IF i > Len(LinuxChecks) THEN <<>>
  ELSE (IF indexOf(out, LinuxChecks[i].needle) < 0 THEN <<LinuxChecks[i].names>> ELSE <<>>)
       \o FailedChecks(out, i + 1)

\* A handler that turns the failure of execFile into an empty listing.
CaughtExecFileValue_EmptyListing == [defined |-> TRUE, stdout |-> <<>>]

\* What `await execFile(...).catch(console.error)` yields when execFile
\* fails: the value of console.error(err), undefined.
CaughtExecFileValue == [defined |-> FALSE, stdout |-> <<>>]

\* The continuation of linux() after `await execFile('ldconfig', ['-p'])`.
\* A failed execFile is logged by .catch(console.error); destructuring
\* { stdout } from undefined throws, so linux() rejects before any check runs.
LinuxExecFileSettled ==
  /\ Alive /\ lxPc = "execFile"
  /\ UNCHANGED <<platform, arch, mainPc, started, procCalls, fsTouched, dwVars>>
  /\ UNCHANGED <<winVars, getVars, uzVars>>
  /\ \E outcome \in {"ok", "failed"} :
       \E value \in (IF outcome = "ok"
                     THEN {[defined |-> TRUE, stdout |-> out] : out \in Listings}
                     ELSE {CaughtExecFileValue}) :
         LET logged == IF outcome = "ok" THEN console ELSE console \cup {"execFile error"}
             missing == FailedChecks(value.stdout, 1)
             res == IF missing # <<>> THEN 1 ELSE 0
         IN /\ procResults' = Append(procResults, outcome)
            /\ IF ~value.defined
               THEN /\ console' = logged
                    /\ lxPc' = "rejected"
                    /\ UNCHANGED <<exitCode, stdout, result, notInstalledMsgs>>
               ELSE /\ stdout' = value.stdout
                    /\ notInstalledMsgs' = missing
                    /\ result' = res
                    /\ IF res = 1
                       THEN /\ console' = logged \cup {"Try running the following (Ubuntu/Debian): ..."}
                            /\ exitCode' = 1
                            /\ lxPc' = "exited"
                       ELSE /\ lxPc' = "returned"
                            /\ console' = logged
                            /\ UNCHANGED exitCode

\* ----------------------------------------------------------------- darwin()
\* darwin() that gives up unless both markers are in the error output.
BrewQueryFatal_Either(stderr) ==
  indexOf(stderr, NoSuchKeg) = -1 \/ indexOf(stderr, FfmpegAt5) = -1

\* The condition under which a failed `brew list` ends the process.
BrewQueryFatal(stderr) ==
  indexOf(stderr, NoSuchKeg) = -1 /\ indexOf(stderr, FfmpegAt5) = -1

\* The continuation of darwin() after `await exec('brew list ffmpeg@5')`.
DarwinListSettled ==
  /\ Alive /\ dwPc = "list"
  /\ UNCHANGED <<platform, arch, mainPc, started, fsTouched, lxVars>>
  /\ UNCHANGED <<winVars, getVars, uzVars>>
  /\ \/ /\ returnMessage' = "FFmpeg already present via Homebrew."
        /\ console' = console \cup {"FFmpeg already present via Homebrew."}
        /\ dwPc' = "returned"
        /\ procResults' = Append(procResults, "ok")
        /\ UNCHANGED <<exitCode, procCalls, brewStderr>>
     \/ \E stderr \in BrewStderrs :
          /\ procResults' = Append(procResults, "failed")
          /\ brewStderr' = <<stderr>>
          /\ IF BrewQueryFatal(stderr)
             THEN /\ console' = console \cup {"Either Homebrew is not installed or something else is wrong. Exiting"}
                  /\ exitCode' = 1
                  /\ dwPc' = "exited"
                  /\ UNCHANGED <<procCalls, returnMessage>>
             ELSE /\ console' = console \cup {"FFmpeg not installed. Attempting to install via Homebrew."}
                  /\ procCalls' = Append(procCalls, "brew install nasm pkg-config texi2html ffmpeg@5")
                  /\ dwPc' = "install"
                  /\ UNCHANGED <<exitCode, returnMessage>>

\* darwin() without process.exit(1) in the catch of the installation.
DarwinInstallSettled_NoExit ==
  /\ Alive /\ dwPc = "install"
  /\ UNCHANGED <<platform, arch, mainPc, started, procCalls, fsTouched, lxVars>>
  /\ UNCHANGED <<winVars, getVars, uzVars>>
  /\ UNCHANGED <<brewStderr, exitCode>>
  /\ dwPc' = "returned"
  /\ \/ /\ returnMessage' = "FFmpeg installed via Homebrew."
        /\ console' = console \cup {"FFmpeg installed via Homebrew."}
        /\ procResults' = Append(procResults, "ok")
     \/ /\ console' = console \cup {"Failed to install ffmpeg:"}
        /\ procResults' = Append(procResults, "failed")
        /\ UNCHANGED returnMessage

\* The continuation of darwin() after `await exec('brew install ...')`.
DarwinInstallSettled ==
  /\ Alive /\ dwPc = "install"
  /\ UNCHANGED <<platform, arch, mainPc, started, procCalls, fsTouched, lxVars>>
  /\ UNCHANGED <<winVars, getVars, uzVars>>
  /\ UNCHANGED brewStderr
  /\ \/ /\ returnMessage' = "FFmpeg installed via Homebrew."
        /\ console' = console \cup {"FFmpeg installed via Homebrew."}
        /\ dwPc' = "returned"
        /\ procResults' = Append(procResults, "ok")
        /\ UNCHANGED exitCode
     \/ /\ console' = console \cup {"Failed to install ffmpeg:"}
        /\ exitCode' = 1
        /\ dwPc' = "exited"
        /\ procResults' = Append(procResults, "failed")
        /\ UNCHANGED returnMessage

\* -------------------------------------------------------------------- get()
\* The statuses get() treats as a redirect.
IsRedirect(status) == status = 301 \/ status = 302

\* `received * 100 / totalLength | 0`: NaN and Infinity become 0 under | 0.
Percent(rcv, total) ==
  IF total.nan \/ total.v = 0 THEN 0 ELSE (rcv * 100) \div total.v

\* get() that calls comp() as soon as the response is piped.
PromiseAfterResponse_Early(status) == IF IsRedirect(status) THEN "rejected" ELSE "resolved"

\* The promise of get() when the callback of https.get returns: err() was
\* called for a redirect; otherwise only listeners were attached.
PromiseAfterResponse(status) == IF IsRedirect(status) THEN "rejected" ELSE "pending"

\* The response of the call in flight is piped to ws_shared.
Piped == resState = "flowing"

\* get(ws_shared, url, name) is called: a new promise, received and totalLength 0.
GetCall(url) ==
  /\ getCalls' = Append(getCalls, url)
  /\ gPromise' = "pending"
  /\ gErr' = NoError
  /\ resStatus' = 0
  /\ resLocation' = Undefined
  /\ body' = <<>>
  /\ resState' = "none"
  /\ received' = 0
  /\ totalLength' = Num(0)
  /\ progress' = <<>>
  /\ resLength' = 0

\* The callback of https.get: the response arrives.  A Location header comes
\* with 3xx statuses only; Content-Length is present or not.
GetResponse ==
  /\ Alive /\ gPromise = "pending" /\ resStatus = 0
  /\ UNCHANGED <<procVars, lxVars, dwVars, winVars, uzVars, received, progress>>
  /\ \E st \in Statuses :
       \E loc \in (IF st \in 300..399 THEN Locations ELSE {Undefined}) :
         /\ resStatus' = st
         /\ resLocation' = loc
         /\ IF IsRedirect(st)
            THEN /\ gPromise' = PromiseAfterResponse(st)
                 /\ gErr' = [name |-> "RedirectError", message |-> loc]
                 /\ resState' = "unread"
                 /\ UNCHANGED <<body, totalLength, resLength>>
            ELSE /\ \E chunks \in Bodies, hasLength \in BOOLEAN :
                      /\ body' = chunks
                      /\ resLength' = Sum(chunks)
                      /\ totalLength' = IF totalLength = Num(0)
                                        THEN (IF hasLength THEN Num(Sum(chunks)) ELSE NaN)
                                        ELSE totalLength
                 /\ gPromise' = PromiseAfterResponse(st)
                 /\ resState' = "flowing"
                 /\ UNCHANGED gErr

\* 'error' of the request, before any response.
GetRequestError ==
  /\ Alive /\ gPromise = "pending" /\ resStatus = 0
  /\ gPromise' = "rejected"
  /\ gErr' = [name |-> "Error", message |-> "request failed"]
  /\ UNCHANGED <<procVars, lxVars, dwVars, winVars, uzVars>>
  /\ UNCHANGED <<resStatus, resLocation, body, resState, received, totalLength, resLength, progress>>

\* A 'data' listener that keeps the length of the last chunk.
ReceivedAfter_LastChunk(rcv, len) == len

\* received += x.length
ReceivedAfter(rcv, len) == rcv + len

\* 'data' of the response: the listener of res.pipe(ws) writes the chunk to
\* the sink, then the listener of line 47 counts it and prints the progress.
GetData ==
  /\ Alive /\ Piped /\ body # <<>>
  /\ sinkWritten' = sinkWritten + Head(body)
  /\ received' = ReceivedAfter(received, Head(body))
  /\ progress' = Append(progress, [received |-> ReceivedAfter(received, Head(body)),
                                   percent |-> Percent(ReceivedAfter(received, Head(body)), totalLength)])
  /\ body' = Tail(body)
  /\ UNCHANGED <<procVars, lxVars, dwVars, uzVars, wPc, getCalls, renameCalls, accessResult>>
  /\ UNCHANGED <<gPromise, gErr, resStatus, resLocation, resState, totalLength, resLength>>

\* 'end' of the response, after its last chunk: the listener of res.pipe(ws)
\* ends the sink, then the listener of line 42 prints and calls comp().
GetEnd ==
  /\ Alive /\ Piped /\ body = <<>>
  /\ resState' = "ended"
  /\ console' = console \cup {"Downloaded 100%"}
  /\ gPromise' = IF gPromise = "pending" THEN "resolved" ELSE gPromise
  /\ UNCHANGED <<platform, arch, procResults, mainPc, exitCode, started, procCalls, fsTouched>>
  /\ UNCHANGED <<lxVars, dwVars, winVars, uzVars>>
  /\ UNCHANGED <<gErr, resStatus, resLocation, body, received, totalLength, resLength, progress>>

\* 'error' of the response: the rest of the body never arrives.
GetResponseError ==
  /\ Alive /\ Piped
  /\ resState' = "failed"
  /\ gPromise' = IF gPromise = "pending" THEN "rejected" ELSE gPromise
  /\ gErr' = IF gPromise = "pending" THEN [name |-> "Error", message |-> "response failed"] ELSE gErr
  /\ body' = <<>>
  /\ UNCHANGED <<procVars, lxVars, dwVars, winVars, uzVars>>
  /\ UNCHANGED <<resStatus, resLocation, received, totalLength, resLength, progress>>

\* ------------------------------------------------------------- unzipFile()
DestFolder == <<"f", "f", "m", "p", "e", "g">>

\* A test for a leading '/' in place of a trailing one.
IsDirectoryName_Leading(fileName) == fileName # <<>> /\ fileName[1] = "/"

\* /\/$/.test(fileName)
IsDirectoryName(fileName) == fileName # <<>> /\ fileName[Len(fileName)] = "/"

RECURSIVE FirstSegment(_)
\* fileName.split('/')[0]
FirstSegment(fileName) ==
  IF fileName = <<>> \/ Head(fileName) = "/" THEN <<>>
  ELSE <<Head(fileName)>> \o FirstSegment(Tail(fileName))

\* path.join(destFolder, fileName) where unzipFile runs, on win32: the parts
\* are joined and every '/' becomes the separator '\'.
PathJoin(folder, fileName) ==
  LET joined == folder \o <<"/">> \o fileName
  IN [k \in DOMAIN joined |-> IF joined[k] = "/" THEN "\\" ELSE joined[k]]

\* incHandles() that leaves the counter alone.
incHandles_NoOp(h) == h

incHandles(h) == h + 1

\* unzipFile without the incHandles() that precedes yauzl.open.
HandlesBeforeOpen_NoSlot == incHandles(0) - 1

\* handles when yauzl.open is called: `let handles = 0` and the incHandles()
\* that precedes the call.
HandlesBeforeOpen == incHandles(0)

\* unzipFile(archiveName, destFolder) is called: the promise is created and
\* yauzl.open is under way.
UnzipCall ==
  /\ uzPromise' = "pending"
  /\ handles' = HandlesBeforeOpen
  /\ uzPc' = "opening"
  /\ UNCHANGED <<resolveCalls, uzRoot, rootPath, archive, wsPaths, nextEntry, readReqs, zipEnded, rs, ws>>

\* decHandles(): resolve(rootPath) when the counter reaches zero.  resolve on
\* a settled promise changes nothing.
DecHandles ==
  /\ handles' = handles - 1
  /\ IF handles - 1 = 0
     THEN /\ console' = console \cup {"Unzipping completed."}
          /\ resolveCalls' = resolveCalls + 1
          /\ uzPromise' = IF uzPromise = "pending" THEN "resolved" ELSE uzPromise
          /\ uzRoot' = IF uzPromise = "pending" THEN rootPath ELSE uzRoot
     ELSE UNCHANGED <<console, resolveCalls, uzPromise, uzRoot>>

\* An exception no one catches, or an 'error' event no one listens to, ends
\* the process with status 1 at once.
Crash ==
  /\ exitCode' = 1
  /\ console' = console \cup {"Uncaught exception"}

\* The callback of yauzl.open.  With err, reject(err) is followed by
\* zipfile.readEntry() on an undefined zipfile, which throws in the callback.
UnzipOpenSettled ==
  /\ Alive /\ uzPc = "opening"
  /\ UNCHANGED <<platform, arch, procResults, mainPc, started, procCalls, fsTouched>>
  /\ UNCHANGED <<lxVars, dwVars, winVars, getVars>>
  /\ UNCHANGED <<resolveCalls, uzRoot, handles, rootPath, nextEntry, zipEnded, wsPaths>>
  /\ \/ \E a \in Archives :
          /\ archive' = a
          /\ rs' = [i \in DOMAIN a |-> "none"]
          /\ ws' = [i \in DOMAIN a |-> "none"]
          /\ readReqs' = readReqs + 1
          /\ uzPc' = "open"
          /\ UNCHANGED <<exitCode, console, uzPromise>>
     \/ /\ uzPc' = "openFailed"
        /\ uzPromise' = "rejected"
        /\ Crash
        /\ UNCHANGED <<archive, rs, ws, readReqs>>

\* An 'entry' listener that calls zipfile.readEntry() for file entries too,
\* right after zipfile.openReadStream.
ReadReqsAfterEntry_Eager(isDirectory, n) == (n - 1) + 1

\* The requests outstanding after the 'entry' listener has run: the event
\* answers one; a directory entry calls zipfile.readEntry() at once, a file
\* entry leaves that to the 'end' of its read stream.
ReadReqsAfterEntry(isDirectory, n) == IF isDirectory THEN (n - 1) + 1 ELSE n - 1

\* 'entry' of the zipfile, answering one readEntry().
ZipEntry ==
  /\ Alive /\ uzPc = "open" /\ readReqs > 0 /\ nextEntry <= Len(archive)
  /\ nextEntry' = nextEntry + 1
  /\ readReqs' = ReadReqsAfterEntry(IsDirectoryName(archive[nextEntry]), readReqs)
  /\ rs' = IF IsDirectoryName(archive[nextEntry]) THEN rs
           ELSE [rs EXCEPT ![nextEntry] = "opening"]
  /\ UNCHANGED <<procVars, lxVars, dwVars, winVars, getVars>>
  /\ UNCHANGED <<uzPc, uzPromise, resolveCalls, uzRoot, handles, rootPath, archive, wsPaths, zipEnded, ws>>

\* unzipFile without the 'end' listener of the zipfile.
ZipEnd_NoListener ==
  /\ Alive /\ uzPc = "open" /\ readReqs > 0 /\ nextEntry > Len(archive) /\ ~zipEnded
  /\ zipEnded' = TRUE
  /\ readReqs' = readReqs - 1
  /\ UNCHANGED <<procVars, lxVars, dwVars, winVars, getVars>>
  /\ UNCHANGED <<uzPc, uzPromise, resolveCalls, uzRoot, handles, rootPath, archive, wsPaths, nextEntry, rs, ws>>

\* 'end' of the zipfile: a readEntry() after the last entry.
ZipEnd ==
  /\ Alive /\ uzPc = "open" /\ readReqs > 0 /\ nextEntry > Len(archive) /\ ~zipEnded
  /\ zipEnded' = TRUE
  /\ readReqs' = readReqs - 1
  /\ DecHandles
  /\ UNCHANGED <<platform, arch, procResults, mainPc, exitCode, started, procCalls, fsTouched>>
  /\ UNCHANGED <<lxVars, dwVars, winVars, getVars>>
  /\ UNCHANGED <<uzPc, rootPath, archive, wsPaths, nextEntry, rs, ws>>

\* A callback that records the first segment of every file entry.
RootPathAfter_Overwritten(root, fileName) == FirstSegment(fileName)

\* if (rootPath === '') { rootPath = entry.fileName.split('/')[0]; }
RootPathAfter(root, fileName) == IF root = <<>> THEN FirstSegment(fileName) ELSE root

\* The callback of zipfile.openReadStream for entry i.  With err, reject(err)
\* is followed by readStream.on on an undefined readStream, which throws.
OpenReadStreamSettled(i) ==
  /\ Alive /\ uzPc = "open" /\ rs[i] = "opening"
  /\ UNCHANGED <<platform, arch, procResults, mainPc, started, procCalls>>
  /\ UNCHANGED <<lxVars, dwVars, winVars, getVars>>
  /\ UNCHANGED <<uzPc, resolveCalls, uzRoot, archive, nextEntry, readReqs, zipEnded>>
  /\ \/ /\ rs' = [rs EXCEPT ![i] = "open"]
        /\ rootPath' = RootPathAfter(rootPath, archive[i])
        /\ handles' = incHandles(handles)
        /\ ws' = [ws EXCEPT ![i] = "open"]
        /\ wsPaths' = Append(wsPaths, PathJoin(DestFolder, archive[i]))
        /\ fsTouched' = fsTouched \cup {"createWriteStream"}
                          \cup (IF FirstSegment(archive[i]) # archive[i] THEN {"mkdirSync"} ELSE {})
        /\ UNCHANGED <<exitCode, console, uzPromise>>
     \/ /\ rs' = [rs EXCEPT ![i] = "openFailed"]
        /\ uzPromise' = IF uzPromise = "pending" THEN "rejected" ELSE uzPromise
        /\ Crash
        /\ UNCHANGED <<rootPath, handles, ws, wsPaths, fsTouched>>

\* 'end' of entry i's read stream: the listener of line 120 asks for the next
\* entry; the pipe then ends the write stream.
ReadStreamEnd(i) ==
  /\ Alive /\ uzPc = "open" /\ rs[i] = "open"
  /\ rs' = [rs EXCEPT ![i] = "ended"]
  /\ readReqs' = readReqs + 1
  /\ ws' = [ws EXCEPT ![i] = "ending"]
  /\ UNCHANGED <<procVars, lxVars, dwVars, winVars, getVars>>
  /\ UNCHANGED <<uzPc, uzPromise, resolveCalls, uzRoot, handles, rootPath, archive, wsPaths, nextEntry, zipEnded>>

\* 'close' of entry i's write stream, after it was ended and flushed.
WriteStreamClose(i) ==
  /\ Alive /\ uzPc = "open" /\ ws[i] = "ending"
  /\ ws' = [ws EXCEPT ![i] = "closed"]
  /\ DecHandles
  /\ UNCHANGED <<platform, arch, procResults, mainPc, exitCode, started, procCalls, fsTouched>>
  /\ UNCHANGED <<lxVars, dwVars, winVars, getVars>>
  /\ UNCHANGED <<uzPc, rootPath, archive, wsPaths, nextEntry, readReqs, zipEnded, rs>>

\* 'error' of entry i's write stream (the file cannot be opened or written):
\* no listener is attached, so the event is thrown.
WriteStreamError(i) ==
  /\ Alive /\ uzPc = "open" /\ ws[i] \in {"open", "ending"}
  /\ ws' = [ws EXCEPT ![i] = "errored"]
  /\ Crash
  /\ UNCHANGED <<platform, arch, procResults, mainPc, started, procCalls, fsTouched>>
  /\ UNCHANGED <<lxVars, dwVars, winVars, getVars>>
  /\ UNCHANGED <<uzPc, uzPromise, resolveCalls, uzRoot, handles, rootPath, archive, wsPaths, nextEntry, readReqs, zipEnded, rs>>

\* 'error' of entry i's read stream: no listener is attached either.
ReadStreamError(i) ==
  /\ Alive /\ uzPc = "open" /\ rs[i] = "open"
  /\ rs' = [rs EXCEPT ![i] = "errored"]
  /\ Crash
  /\ UNCHANGED <<platform, arch, procResults, mainPc, started, procCalls, fsTouched>>
  /\ UNCHANGED <<lxVars, dwVars, winVars, getVars>>
  /\ UNCHANGED <<uzPc, uzPromise, resolveCalls, uzRoot, handles, rootPath, archive, wsPaths, nextEntry, readReqs, zipEnded, ws>>

\* ------------------------------------------------------------------ win32()
\* win32() rejects: the .catch(console.error) of the dispatch switch logs it.
Win32Rejects ==
  /\ wPc' = "rejected"
  /\ console' = console \cup {"win32 rejected"}

\* The get() call is over and its frame is gone.
GetReturns ==
  /\ gPromise' = "none"
  /\ gErr' = NoError
  /\ resStatus' = 0
  /\ resLocation' = Undefined
  /\ body' = <<>>
  /\ resState' = "none"
  /\ received' = 0
  /\ totalLength' = Num(0)
  /\ progress' = <<>>
  /\ resLength' = 0

\* `await exec('npm install yauzl --no-save')` is reached.
ExecNpm ==
  /\ procCalls' = Append(procCalls, "npm install yauzl --no-save")
  /\ wPc' = "npm"

\* The retry that asks for the pinned url again.
RedirectURL_Pinned(err) == Url

\* const redirectURL = err.message
RedirectURL(err) == err.message

\* After `await mkdir('ffmpeg').catch(...)`: EEXIST is ignored, any other
\* error is thrown again; then access() is called.
WinMkdirSettled ==
  /\ Alive /\ wPc = "mkdir"
  /\ UNCHANGED <<platform, arch, procResults, mainPc, exitCode, started, procCalls>>
  /\ UNCHANGED <<lxVars, dwVars, getCalls, renameCalls, sinkWritten, accessResult, getVars, uzVars>>
  /\ \E outcome \in {"created", "EEXIST", "EACCES"} :
       IF outcome \notin {"created", "EEXIST"}
       THEN /\ Win32Rejects
            /\ UNCHANGED fsTouched
       ELSE /\ wPc' = "access"
            /\ fsTouched' = IF outcome = "created" THEN fsTouched \cup {"mkdir"} ELSE fsTouched
            /\ UNCHANGED console

\* win32() whose download handler is attached with .then.
DownloadNeeded_OnSuccess(outcome) == outcome = "readable"

\* `access(...).catch(async () => { ... })`: the handler that downloads,
\* extracts and renames runs when access() rejects.
DownloadNeeded(outcome) == outcome # "readable"

\* After `await access(...)`: when it fails, the handler creates ws_shared
\* and calls get() with the pinned url.
WinAccessSettled ==
  /\ Alive /\ wPc = "access"
  /\ UNCHANGED <<platform, arch, procResults, mainPc, exitCode, started, console, procCalls>>
  /\ UNCHANGED <<lxVars, dwVars, renameCalls, sinkWritten, uzVars>>
  /\ \E outcome \in {"readable", "absent"} :
       /\ accessResult' = outcome
       /\ IF ~DownloadNeeded(outcome)
          THEN /\ wPc' = "resolved"
               /\ UNCHANGED <<fsTouched, getCalls, getVars>>
          ELSE /\ fsTouched' = fsTouched \cup {"createWriteStream"}
               /\ GetCall(Url)
               /\ wPc' = "get1"

\* The first get() has settled: on RedirectError the handler calls get() with
\* the redirect url; any other error is logged; unless get() was called again,
\* npm install follows.
WinGetSettled ==
  /\ Alive /\ wPc = "get1" /\ gPromise \in {"resolved", "rejected"}
  /\ UNCHANGED <<platform, arch, procResults, mainPc, exitCode, started, fsTouched>>
  /\ UNCHANGED <<lxVars, dwVars, renameCalls, sinkWritten, accessResult, uzVars>>
  /\ IF gPromise = "rejected" /\ gErr.name = "RedirectError"
     THEN /\ GetCall(RedirectURL(gErr))
          /\ wPc' = "get2"
          /\ UNCHANGED <<console, procCalls>>
     ELSE /\ console' = IF gPromise = "rejected" THEN console \cup {"get error logged"} ELSE console
          /\ ExecNpm
          /\ GetReturns
          /\ UNCHANGED getCalls

\* The second get() has settled: its rejection is not handled inside win32().
WinGet2Settled ==
  /\ Alive /\ wPc = "get2" /\ gPromise \in {"resolved", "rejected"}
  /\ UNCHANGED <<platform, arch, procResults, mainPc, exitCode, started, fsTouched>>
  /\ UNCHANGED <<lxVars, dwVars, getCalls, renameCalls, sinkWritten, accessResult, uzVars>>
  /\ IF gPromise = "rejected"
     THEN /\ Win32Rejects
          /\ UNCHANGED <<procCalls, getVars>>
     ELSE /\ ExecNpm
          /\ GetReturns
          /\ UNCHANGED console

\* npm install has ended: unzipFile() is called, or win32() rejects.
WinNpmSettled ==
  /\ Alive /\ wPc = "npm"
  /\ UNCHANGED <<platform, arch, mainPc, exitCode, started, procCalls, fsTouched>>
  /\ UNCHANGED <<lxVars, dwVars, getCalls, renameCalls, sinkWritten, accessResult, getVars>>
  /\ \/ /\ console' = console \cup {"Unzipping."}
        /\ procResults' = Append(procResults, "ok")
        /\ UnzipCall
        /\ wPc' = "unzip"
     \/ /\ Win32Rejects
        /\ procResults' = Append(procResults, "failed")
        /\ UNCHANGED uzVars

\* win32() that calls unzipFile without await and goes on at once.
UnzipAwaited_NoAwait == uzPromise # "none"

\* `const root = await unzipFile(...)`: win32() goes on when the promise of
\* unzipFile has settled.
UnzipAwaited == uzPromise \in {"resolved", "rejected"}

\* unzipFile() has settled: fs.renameSync of the returned root, which may throw.
WinUnzipSettled ==
  /\ Alive /\ wPc = "unzip" /\ UnzipAwaited
  /\ UNCHANGED <<platform, arch, procResults, mainPc, exitCode, started, procCalls>>
  /\ UNCHANGED <<lxVars, dwVars, getCalls, sinkWritten, accessResult, getVars, uzVars>>
  /\ IF uzPromise = "rejected"
     THEN /\ Win32Rejects
          /\ UNCHANGED <<renameCalls, fsTouched>>
     ELSE /\ renameCalls' = Append(renameCalls, uzRoot)
          /\ \/ /\ fsTouched' = fsTouched \cup {"renameSync"}
                /\ wPc' = "resolved"
                /\ UNCHANGED console
             \/ /\ Win32Rejects
                /\ UNCHANGED fsTouched

\* ------------------------------------------------------------ Node.js runtime
\* Nothing is pending any more: the script body has run and the started
\* branch, if any, has settled.
Quiescent ==
  /\ mainPc = "done"
  /\ lxPc \in {"idle", "returned", "rejected"}
  /\ dwPc \in {"idle", "returned"}
  /\ wPc \in {"idle", "resolved", "rejected"}

\* The event loop is empty and the process ends by itself: status 0, unless a
\* promise was rejected with no handler (the linux() call has none); then the
\* status is 1 where Node.js raises unhandled rejections and 0 where it only
\* warns about them.
ProcessEnds ==
  /\ Alive /\ Quiescent
  /\ exitCode' \in (IF lxPc = "rejected" THEN {0, 1} ELSE {0})
  /\ UNCHANGED <<platform, arch, procResults, mainPc, started, console, procCalls, fsTouched, lxVars, dwVars>>
  /\ UNCHANGED <<winVars, getVars, uzVars>>

Next ==
  \/ Switch
  \/ LinuxExecFileSettled
  \/ DarwinListSettled
  \/ DarwinInstallSettled
  \/ WinMkdirSettled
  \/ WinAccessSettled
  \/ WinGetSettled
  \/ WinGet2Settled
  \/ WinNpmSettled
  \/ WinUnzipSettled
  \/ GetResponse
  \/ GetRequestError
  \/ GetData
  \/ GetEnd
  \/ GetResponseError
  \/ UnzipOpenSettled
  \/ ZipEntry
  \/ ZipEnd
  \/ \E i \in DOMAIN rs : OpenReadStreamSettled(i)
  \/ \E i \in DOMAIN rs : ReadStreamEnd(i)
  \/ \E i \in DOMAIN ws : WriteStreamClose(i)
  \/ \E i \in DOMAIN ws : WriteStreamError(i)
  \/ \E i \in DOMAIN rs : ReadStreamError(i)
  \/ ProcessEnds

Spec == Init /\ [][Next]_vars

\* The event loop delivers the events of unzipFile that are due: an answer
\* to an outstanding readEntry(), the callback of openReadStream, and the
\* end of a stream that is being read or flushed (unless it fails first).
FairSpec ==
  /\ Spec
  /\ WF_vars(ZipEntry)
  /\ WF_vars(ZipEnd)
  /\ WF_vars(\E i \in DOMAIN rs : OpenReadStreamSettled(i))
  /\ WF_vars(\E i \in DOMAIN rs : ReadStreamEnd(i) \/ ReadStreamError(i))
  /\ WF_vars(\E i \in DOMAIN ws : WriteStreamClose(i) \/ WriteStreamError(i))

\* ==================================================================== claims
Range(seq) == { seq[i] : i \in DOMAIN seq }

\* t occurs somewhere in s: s is some prefix, then t, then some suffix.
Contains(s, t) ==
  \E n \in 0..Len(s) :
    /\ n + Len(t) <= Len(s)
    /\ \A j \in 1..Len(t) : s[n + j] = t[j]

\* C1: unzipFile's promise is resolved only when the handle counter is zero,
\* the archive has ended and every write stream that was opened has closed;
\* from the call of yauzl.open until the archive's 'end' the enumeration
\* holds a slot, so the counter is at least one.
C1_ResolvedOnlyWhenAllClosed ==
  /\ uzPromise = "resolved" =>
       /\ handles = 0
       /\ zipEnded
       /\ \A i \in DOMAIN ws : ws[i] # "none" => ws[i] = "closed"
       /\ \A i \in DOMAIN archive : ~IsDirectoryName(archive[i]) => ws[i] = "closed"
  /\ (uzPc \in {"opening", "open", "openFailed"} /\ ~zipEnded) => handles >= 1

\* An archive with two file entries was extracted, both write streams closed.
C1_Witness ==
  /\ uzPromise = "resolved"
  /\ Cardinality({i \in DOMAIN ws : ws[i] = "closed"}) >= 2

\* C2: the handle counter is never negative and resolve() is called at most
\* once per unzipFile run.
C2_CounterNonNegativeOneCompletion ==
  /\ handles >= 0
  /\ resolveCalls <= 1

\* The counter went up for a file entry and came back to zero, resolving once.
C2_Witness ==
  /\ resolveCalls = 1 /\ handles = 0 /\ zipEnded
  /\ \E i \in DOMAIN ws : ws[i] = "closed"

\* C3: when the archive cannot be opened, an entry's read stream cannot be
\* opened or a write to a destination file fails, unzipFile's promise is
\* rejected, and it is never resolved.
C3_EveryFailureRejects ==
  (\/ uzPc = "openFailed"
   \/ \E i \in DOMAIN rs : rs[i] = "openFailed"
   \/ \E i \in DOMAIN ws : ws[i] = "errored")
  => uzPromise = "rejected"

\* C4: for every 3xx response with a Location header, get() is rejected with
\* RedirectError carrying that Location and nothing is written to the sink.
C4_Every3xxIsRedirectError ==
  (resStatus \in 300..399 /\ resLocation # Undefined) =>
    /\ gPromise = "rejected"
    /\ gErr = [name |-> "RedirectError", message |-> resLocation]
    /\ sinkWritten = 0

C6_TransferErrorEndsRun ==
  (\/ "get error logged" \in console
   \/ (gPromise = "rejected" /\ gErr.name # "RedirectError"))
  => /\ uzPc = "idle"
     /\ renameCalls = <<>>
     /\ wPc # "resolved"

\* C7: get() is called at most twice; the first call asks for the pinned url
\* and the second is made only when the first was rejected with
\* RedirectError, with the Location of that response as url; when the second
\* call is rejected too (a redirect included), win32() rejects without npm
\* install, unzipFile or rename.
C7_AtMostOneRedirectFollowed ==
  /\ [](/\ Len(getCalls) <= 2
        /\ (getCalls # <<>> => getCalls[1] = Url)
        /\ (Len(getCalls) = 2 /\ gPromise = "rejected") =>
             /\ wPc \in {"get2", "rejected"}
             /\ procCalls = <<>>
             /\ uzPc = "idle"
             /\ renameCalls = <<>>)
  /\ [][/\ (Len(getCalls') = 2 /\ Len(getCalls) = 1) =>
             /\ gPromise = "rejected"
             /\ gErr.name = "RedirectError"
             /\ resStatus \in {301, 302}
             /\ getCalls'[2] = resLocation
        /\ (wPc = "get2" /\ gPromise = "rejected" /\ wPc' # wPc) => wPc' = "rejected"
       ]_vars

\* The second get() was answered by a redirect too and win32() has rejected.
C7_Witness ==
  /\ Len(getCalls) = 2 /\ getCalls[2] # Undefined
  /\ gPromise = "rejected" /\ gErr.name = "RedirectError"
  /\ wPc = "rejected"

\* The (os.platform(), os.arch()) pairs the installer supports.
SupportedPair(p, a) ==
  \/ (p = "win32" /\ a = "x64")
  \/ (p = "linux" /\ a \in {"x64", "arm64"})
  \/ (p = "darwin" /\ a \in {"x64", "arm64"})

\* C8: once the switch has run, exactly the branch of a supported pair has
\* been started and none for an unsupported pair; a run on an unsupported
\* pair never makes a request, changes the filesystem or executes a command.
C8_ExactlyOneBranchOrNone ==
  /\ mainPc = "switch" => started = {}
  /\ (mainPc = "done" /\ SupportedPair(platform, arch)) => started = {platform}
  /\ ~SupportedPair(platform, arch) =>
       /\ started = {}
       /\ getCalls = <<>> /\ procCalls = <<>> /\ fsTouched = {}

\* linux() was started on arm64 and has executed ldconfig.
C8_Witness ==
  /\ platform = "linux" /\ arch = "arm64"
  /\ started = {"linux"} /\ procCalls = <<"ldconfig -p">>

\* The branch that was started has ended with success.
Succeeded ==
  \/ (platform = "win32" /\ wPc = "resolved")
  \/ (platform = "linux" /\ lxPc = "returned")
  \/ (platform = "darwin" /\ dwPc = "returned")

\* C9: a process that has ended on an unsupported platform or architecture,
\* with a required library missing or after a failed brew command has status
\* 1, and status 0 is the status of succeeded runs only.
C9_FailedRunsExitOne ==
  exitCode # Running =>
    /\ ~SupportedPair(platform, arch) => exitCode = 1
    /\ notInstalledMsgs # <<>> => exitCode = 1
    /\ dwPc = "exited" => exitCode = 1
    /\ exitCode = 0 => Succeeded

RequiredLibraries ==
  {LibAvcodec, LibAvformat, LibAvdevice, LibAvfilter, LibAvutil, LibPostproc,
   LibSwresample, LibSwscale}

\* C10: after linux() has read a listing, a required library is named by a
\* 'not installed' message exactly when its name is no substring of the
\* listing; the remediation text is printed and the process exits with 1
\* exactly when some required library is absent; otherwise linux() returns 0
\* and prints neither.
C10_MissingIffNotSubstring ==
  lxPc \in {"returned", "exited"} =>
    LET absent == {l \in RequiredLibraries : ~Contains(stdout, l)}
        remediation == "Try running the following (Ubuntu/Debian): ..." \in console
    IN /\ Range(notInstalledMsgs) = absent
       /\ Len(notInstalledMsgs) = Cardinality(absent)
       /\ (remediation /\ exitCode = 1 /\ lxPc = "exited") <=> (absent # {})
       /\ absent = {} =>
            /\ lxPc = "returned" /\ result = 0
            /\ notInstalledMsgs = <<>> /\ ~remediation
            /\ exitCode \in {Running, 0}

\* The listing holds libavcodec.so.59 but no libpostproc.so.56.
C10_Witness ==
  /\ lxPc = "exited" /\ exitCode = 1
  /\ Contains(stdout, LibAvcodec) /\ ~Contains(stdout, LibPostproc)
  /\ LibPostproc \in Range(notInstalledMsgs)

\* The number of times x occurs in seq.
CountOf(seq, x) == Cardinality({i \in DOMAIN seq : seq[i] = x})

\* The execution of `ldconfig -p` has failed.
ListingFailed == "linux" \in started /\ procResults = <<"failed">>

\* C11: on Linux `ldconfig -p` is executed exactly once per run (and never
\* before linux() is started); once that execution has failed, no listing has
\* been read, no library check has produced a 'not installed' message, no
\* remediation text is printed and linux() has not returned its result: the
\* run has not succeeded.
C11_FailedListingIsFatal ==
  /\ CountOf(procCalls, "ldconfig -p") = (IF "linux" \in started THEN 1 ELSE 0)
  /\ ListingFailed =>
       /\ lxPc = "rejected"
       /\ stdout = <<>> /\ result = 0
       /\ notInstalledMsgs = <<>>
       /\ "Try running the following (Ubuntu/Debian): ..." \notin console
       /\ ~Succeeded

\* ldconfig has failed, linux() has rejected and the process has ended.
C11_Witness ==
  /\ ListingFailed /\ lxPc = "rejected" /\ exitCode = 1
  /\ "execFile error" \in console

\* The error output of `brew list` carries a marker darwin() looks for.
NotFoundSignal(stderr) == Contains(stderr, NoSuchKeg) \/ Contains(stderr, FfmpegAt5)

BrewInstall == "brew install nasm pkg-config texi2html ffmpeg@5"

\* C12: on macOS, once `brew list ffmpeg@5` has failed, `brew install` has
\* been executed exactly when the error output of the query carries the
\* not-found signal ('Error: No such keg' or 'ffmpeg@5'); after any other
\* failure the process has exited with 1 and `brew install` is not executed.
C12_InstallIffNotFoundSignal ==
  brewStderr # <<>> =>
    LET stderr == brewStderr[1]
    IN /\ "darwin" \in started /\ Head(procResults) = "failed"
       /\ (BrewInstall \in Range(procCalls)) <=> NotFoundSignal(stderr)
       /\ ~NotFoundSignal(stderr) =>
            /\ exitCode = 1 /\ dwPc = "exited"
            /\ procCalls = <<"brew list ffmpeg@5">>
            /\ returnMessage = ""

\* brew is missing: the query has failed without the signal.
C12_Witness ==
  /\ brewStderr = <<StderrNoBrew>> /\ ~NotFoundSignal(StderrNoBrew)
  /\ exitCode = 1 /\ dwPc = "exited"

\* C13: on macOS `brew install` is executed at most once per run; when the
\* query succeeds it is not executed and darwin() returns; when the
\* installation succeeds darwin() returns; when it fails the process exits
\* with 1 and success is never reported.
C13_InstallOnceAndItsOutcomeDecides ==
  /\ CountOf(procCalls, BrewInstall) <= 1
  /\ "darwin" \in started =>
       /\ procResults = <<"ok">> =>
            /\ BrewInstall \notin Range(procCalls)
            /\ dwPc = "returned" /\ exitCode \in {Running, 0}
            /\ returnMessage = "FFmpeg already present via Homebrew."
       /\ procResults = <<"failed", "ok">> =>
            /\ dwPc = "returned" /\ exitCode \in {Running, 0}
            /\ returnMessage = "FFmpeg installed via Homebrew."
       /\ procResults = <<"failed", "failed">> =>
            /\ dwPc = "exited" /\ exitCode = 1
            /\ returnMessage = ""
            /\ "FFmpeg installed via Homebrew." \notin console
            /\ ~Succeeded

\* The installation was attempted once and has failed.
C13_Witness ==
  /\ "darwin" \in started /\ procResults = <<"failed", "failed">>
  /\ CountOf(procCalls, BrewInstall) = 1 /\ exitCode = 1

\* C14: on the Windows path with the target absent, unzipFile is called only
\* after a get() call was made and no get() call is in flight any more;
\* fs.renameSync is called only after unzipFile's promise was resolved, at
\* most once, exactly once when win32() ends fulfilled, and with the root
\* name unzipFile resolved with.
C14_TransferThenExtractThenRename ==
  /\ uzPc # "idle" =>
       /\ accessResult = "absent"
       /\ getCalls # <<>> /\ getCalls[1] = Url
       /\ gPromise = "none" /\ resState = "none"
       /\ "npm install yauzl --no-save" \in Range(procCalls)
  /\ Len(renameCalls) <= 1
  /\ renameCalls # <<>> =>
       /\ uzPromise = "resolved" /\ zipEnded /\ handles = 0
       /\ renameCalls = <<rootPath>>
       /\ wPc \in {"resolved", "rejected"}
  /\ (accessResult = "absent" /\ wPc = "resolved") => Len(renameCalls) = 1

\* The redirect was followed, the archive extracted and its root 'r' renamed.
C14_Witness ==
  /\ accessResult = "absent" /\ Len(getCalls) = 2
  /\ uzPromise = "resolved" /\ renameCalls = << <<"r">> >>
  /\ wPc = "resolved"

\* C15: on the Windows path, when the target exists and is readable, no
\* get() call, no command, no unzipFile and no rename is made, nothing is
\* written, and win32() ends fulfilled: the process ends with status 0.
C15_ReadableTargetSkipsEverything ==
  accessResult = "readable" =>
    /\ getCalls = <<>> /\ gPromise = "none" /\ sinkWritten = 0
    /\ procCalls = <<>>
    /\ uzPc = "idle" /\ wsPaths = <<>>
    /\ renameCalls = <<>>
    /\ fsTouched \subseteq {"mkdir"}
    /\ wPc = "resolved" /\ Succeeded
    /\ exitCode \in {Running, 0}

\* The target was readable and the process has ended with status 0.
C15_Witness ==
  /\ platform = "win32" /\ accessResult = "readable"
  /\ wPc = "resolved" /\ exitCode = 0

\* C16: in unzipFile at most one readEntry() is outstanding, and none while
\* the read stream of a yielded file entry is being opened or read: a
\* request is outstanding only when every entry yielded so far is a
\* directory or has a read stream that ended; entries not yet yielded have
\* no stream.  (That a write stream may close after later entries were
\* requested is the case of C16_Witness.)
C16_EnumerationSequential ==
  uzPc = "open" =>
    /\ readReqs \in {0, 1}
    /\ readReqs + Cardinality({i \in DOMAIN rs : rs[i] \in {"opening", "open"}}) <= 1
    /\ readReqs = 1 =>
         \A i \in 1..(nextEntry - 1) : IsDirectoryName(archive[i]) \/ rs[i] = "ended"
    /\ \A i \in DOMAIN rs : i >= nextEntry => (rs[i] = "none" /\ ws[i] = "none")

\* The write stream of an entry is not closed yet while a later entry has
\* been requested, yielded and is being read.
C16_Witness ==
  /\ uzPc = "open"
  /\ \E i, j \in DOMAIN rs : i < j /\ ws[i] = "ending" /\ rs[j] = "open"

\* The indices of the entries of the archive that are no directories.
FileEntries == {i \in DOMAIN archive : archive[i][Len(archive[i])] # "/"}

\* The part of a name before its first '/', the whole name when it has none.
TopSegment(name) ==
  LET NoSlashUpTo(n) == \A k \in 1..n : name[k] # "/"
      EndsSegment(n) == n < Len(name) => name[n + 1] = "/"
      cut == {n \in 0..Len(name) : NoSlashUpTo(n) /\ EndsSegment(n)}
  IN SubSeq(name, 1, CHOOSE n \in cut : TRUE)

\* C17: the root name unzipFile records, and resolves with, is the top-level
\* path segment of the first entry in enumeration order that is no
\* directory; once a root name is recorded it never changes.
C17_RootIsTopSegmentOfFirstFile ==
  /\ [](LET first == CHOOSE i \in FileEntries : \A k \in FileEntries : i <= k
        IN /\ rootPath # <<>> => (FileEntries # {} /\ rootPath = TopSegment(archive[first]))
           /\ (uzPromise = "resolved" /\ FileEntries # {}) =>
                uzRoot = TopSegment(archive[first]))
  /\ [][rootPath # <<>> => rootPath' = rootPath]_vars

\* The archive r/, r/a, c was extracted: the root is 'r', not 'c'.
C17_Witness ==
  /\ archive = <<DirR, FileRA, FileC>>
  /\ uzPromise = "resolved" /\ uzRoot = <<"r">>
  /\ ws[3] = "closed"

\* The names of the entries that are no directories, in enumeration order.
FileNames == [k \in 1..Cardinality(FileEntries) |->
               archive[CHOOSE i \in FileEntries :
                         Cardinality({j \in FileEntries : j <= i}) = k]]

\* path is 'ffmpeg', a separator, and name with '\' for each '/'.
IsDestinationOf(path, name) ==
  /\ Len(path) = 7 + Len(name)
  /\ SubSeq(path, 1, 7) = <<"f", "f", "m", "p", "e", "g", "\\">>
  /\ \A k \in DOMAIN name :
       path[7 + k] = (IF name[k] = "/" THEN "\\" ELSE name[k])

\* C18: unzipFile opens write streams for entries whose name does not end
\* with '/' only, one per such entry and in enumeration order, each at
\* destFolder joined with the entry's name; when it resolves every such
\* entry has one.  The 'entry' event of a directory opens no stream and
\* leaves the handle counter and the promise alone: it only moves the
\* enumeration to the next entry.
C18_OneSinkPerFileEntry ==
  /\ [](uzPc = "open" =>
          LET opened == {i \in DOMAIN ws : ws[i] # "none"}
          IN /\ opened \subseteq FileEntries
             /\ \A i \in DOMAIN archive : i \notin FileEntries => rs[i] = "none"
             /\ Len(wsPaths) = Cardinality(opened)
             /\ Len(wsPaths) <= Len(FileNames)
             /\ \A k \in DOMAIN wsPaths : IsDestinationOf(wsPaths[k], FileNames[k])
             /\ uzPromise = "resolved" => opened = FileEntries)
  /\ [][(uzPc = "open" /\ nextEntry' = nextEntry + 1 /\ nextEntry \notin FileEntries) =>
          /\ handles' = handles /\ uzPromise' = uzPromise
          /\ ws' = ws /\ rs' = rs /\ wsPaths' = wsPaths
          /\ readReqs' = readReqs /\ readReqs = 1
          /\ fsTouched' = fsTouched
       ]_vars

\* The archive r/, r/a, c was extracted into ffmpeg\r\a and ffmpeg\c.
C18_Witness ==
  /\ archive = <<DirR, FileRA, FileC>> /\ uzPromise = "resolved"
  /\ ws = <<"none", "closed", "closed">>
  /\ wsPaths = << <<"f", "f", "m", "p", "e", "g", "\\", "r", "\\", "a">>,
                  <<"f", "f", "m", "p", "e", "g", "\\", "c">> >>

\* A stream of unzipFile could not be opened or has failed.
StreamFailed ==
  \/ \E i \in DOMAIN rs : rs[i] \in {"openFailed", "errored"}
  \/ \E i \in DOMAIN ws : ws[i] = "errored"

\* C19: once the archive is open, under fair delivery of the events of
\* unzipFile, either a stream fails or unzipFile's promise is resolved with
\* the handle counter back at zero after the archive's 'end'; this holds for
\* an archive without file entries too.
C19_OpenedArchiveCompletes ==
  (uzPc = "open") ~>
     (StreamFailed \/ (uzPromise = "resolved" /\ handles = 0 /\ zipEnded))

\* An archive of directory entries only was opened and unzipFile resolved.
C19_Witness ==
  /\ archive = <<DirR, DirR>> /\ FileEntries = {}
  /\ uzPromise = "resolved" /\ handles = 0 /\ zipEnded

\* C20: while get() handles a response that is no redirect, of resLength
\* bytes in any chunking, the received values of the progress lines never
\* decrease and never exceed resLength; when the response has ended the sink
\* was passed exactly resLength bytes, the last progress line shows
\* resLength, and get() is resolved whether or not the total length is
\* known.  A step that prints a progress line settles nothing: promise,
\* error, response state and exit status are as before.
C20_AllBytesAndMonotoneProgress ==
  /\ [](resState \in {"flowing", "ended", "failed"} =>
          /\ \A k \in 1..(Len(progress) - 1) :
               progress[k].received <= progress[k + 1].received
          /\ \A k \in DOMAIN progress : progress[k].received <= resLength
          /\ sinkWritten <= resLength
          /\ resState = "ended" =>
               /\ sinkWritten = resLength
               /\ received = resLength
               /\ progress # <<>> => progress[Len(progress)].received = resLength
               /\ progress = <<>> => resLength = 0
               /\ gPromise = "resolved")
  /\ [][Len(progress') = Len(progress) + 1 =>
          /\ gPromise' = gPromise /\ gErr' = gErr
          /\ resState' = resState /\ exitCode' = exitCode
          /\ totalLength' = totalLength
       ]_vars

\* Three bytes came as chunks of 2 and 1 with no Content-Length: two progress
\* lines, 0% each, and get() has resolved.
C20_Witness ==
  /\ resLength = 3 /\ totalLength.nan
  /\ progress = <<[received |-> 2, percent |-> 0], [received |-> 3, percent |-> 0]>>
  /\ sinkWritten = 3 /\ gPromise = "resolved"
====
